---- MODULE Spec2Model ----
(***************************************************************************)
(* PollyTrack server (src/server/server.js): the FamilyController handlers *)
(* over the Family collection, as a state machine.                         *)
(*                                                                         *)
(* The store is the MongoDB collection behind the Family model.  Every     *)
(* handler is an async function: each await of a database call or of an    *)
(* SMS send is a point where other requests run, so a handler is a         *)
(* sequence of steps (load; save; one step per send) and the steps of      *)
(* different requests interleave.  getFamily and the health check only     *)
(* read and are left out.                                                  *)
(***************************************************************************)
EXTENDS Integers, Sequences, FiniteSets, TLC

\* ------------------------------------------------------------------ bounds
MaxRequests == 3   \* requests served in one behaviour
MaxFamilies == 1   \* families createFamily may insert
MaxMembers  == 2   \* members in a createFamily body
MaxTargets  == 2   \* leading tasks of a family that requests address

Requests == 1..MaxRequests

\* ------------------------------------------------------------------ values
\* A field that is absent from a document or from a request body.
Undef == "undefined"
\* Task.completedAt: no Date stored (line 36), null (line 149), or the
\* instant of a `new Date()` call, counted by the clock `now` (>= 1).
NoDate == -1
NullDate == 0

\* A request parameter that does not cast to an ObjectId, and a well-formed
\* ObjectId that no document carries.
MalformedId == "not-an-objectid"
UnknownId == "ffffffffffffffffffffffff"

\* The n-th ObjectId generated by the process.
ObjectId(n) == ToString(n)

Categories == {"health", "hygiene", "activity", "other"}

\* No document (findById resolved to null, or nothing loaded yet).
NoDoc == [absent |-> TRUE]

VARIABLES store, nextId, now, req
vars == <<store, nextId, now, req>>

\* ------------------------------------------------------------------ schema
\* members[]: name and phone as given, notifications defaults to true.
CastMember(in, id) ==
  [_id |-> id, name |-> in.name, phone |-> in.phone,
   notifications |-> IF in.notifications = "absent" THEN TRUE
                     ELSE in.notifications = "true"]

\* tasks[]: category defaults to 'other', isCompleted to false; completedBy
\* and completedAt have no default and stay absent.
CastTask(in, id) ==
  [_id |-> id, name |-> in.name,
   category |-> IF in.category = "absent" THEN "other" ELSE in.category,
   completedBy |-> Undef, completedAt |-> NoDate,
   isCompleted |-> IF in.isCompleted = "absent" THEN FALSE
                   ELSE in.isCompleted = "true"]

CastMembers(ins, n) == [i \in 1..Len(ins) |-> CastMember(ins[i], ObjectId(n + i))]
CastTasks(ins, n) == [i \in 1..Len(ins) |-> CastTask(ins[i], ObjectId(n + i))]

\* `required: true` on a String rejects an absent and an empty value.
Required(s) == s # Undef /\ s # ""

ValidMember(m) == Required(m.name) /\ Required(m.phone)
ValidTask(t) == Required(t.name) /\ t.category \in Categories

\* Document validation, run by save() over the whole document.
ValidFamily(d) ==
  /\ Required(d.name)
  /\ \A i \in 1..Len(d.members) : ValidMember(d.members[i])
  /\ \A i \in 1..Len(d.tasks) : ValidTask(d.tasks[i])

\* MongooseDocumentArray.id(): index of the sub-document with that _id, 0
\* when there is none (a parameter that does not cast matches none).
IndexOfId(docs, id) ==
  IF \E i \in 1..Len(docs) : docs[i]._id = id
  THEN CHOOSE i \in 1..Len(docs) : docs[i]._id = id
  ELSE 0

\* ------------------------------------------------------------------ createFamily
TaskInput(name, category) == [name |-> name, category |-> category, isCompleted |-> "absent"]

DefaultTasksShort ==
  << TaskInput("Poop", "hygiene"), TaskInput("Pee", "hygiene"),
     TaskInput("Walk", "activity"), TaskInput("Feed", "health"),
     TaskInput("Medicine", "health") >>

defaultTasks ==
  << TaskInput("Poop", "hygiene"), TaskInput("Pee", "hygiene"),
     TaskInput("Walk", "activity"), TaskInput("Feed", "health"),
     TaskInput("Medicine", "health"), TaskInput("Bath", "hygiene") >>

\* new Family({ name, members, tasks: defaultTasks }): the document gets its
\* _id, then each member and each task its own.
NewFamily(name, members, n) ==
  [_id |-> ObjectId(n), name |-> name,
   members |-> CastMembers(members, n),
   tasks |-> CastTasks(defaultTasks, n + Len(members)),
   v |-> 0]

\* ------------------------------------------------------------------ requests
\* One request: the handler's position (pc), its parameters, the local
\* variable `family` (doc), the document as findById returned it (base), the
\* stored document right after the handler's own write (after), the sends
\* attempted so far and the status of the response once it is sent.
IdleRequest ==
  [pc |-> "idle", op |-> "none", fid |-> UnknownId, sid |-> UnknownId,
   by |-> Undef, sub |-> 0, idx |-> 0, doc |-> NoDoc, base |-> NoDoc,
   after |-> NoDoc, attempts |-> << >>, status |-> 0]

\* Requests are numbered in the order in which they arrive.
Fresh(r) == req[r].pc = "idle" /\ (IF r = 1 THEN TRUE ELSE req[r - 1].pc # "idle")

Arrive(op, fid, sid, by) ==
  [IdleRequest EXCEPT !.op = op, !.fid = fid, !.sid = sid, !.by = by]

\* res.status(status).json(...): the handler is over.
Respond(q, status) == [q EXCEPT !.pc = "done", !.status = status]

\* ------------------------------------------------------------------ inputs
FamilyNames == {"", "Fam"}

MemberInput(name, phone, notifications) ==
  [name |-> name, phone |-> phone, notifications |-> notifications]

MemberPool ==
  { MemberInput("A", "+1", "absent"), MemberInput("B", "+2", "absent"),
    MemberInput("B", "+2", "false"), MemberInput("A", Undef, "absent") }

MemberLists == UNION { [1..n -> MemberPool] : n \in 0..MaxMembers }

CompletedBys == {Undef, "", "A"}

FamilyIdInputs == DOMAIN store \cup {MalformedId, UnknownId}

TaskIdInputs(fid) ==
  IF fid \in DOMAIN store
  THEN { store[fid].tasks[i]._id :
           i \in 1..(IF Len(store[fid].tasks) < MaxTargets
                     THEN Len(store[fid].tasks) ELSE MaxTargets) }
       \cup {MalformedId, UnknownId}
  ELSE {UnknownId}

MemberIdInputs(fid) ==
  IF fid \in DOMAIN store
  THEN { store[fid].members[i]._id : i \in 1..Len(store[fid].members) }
       \cup {MalformedId, UnknownId}
  ELSE {UnknownId}

AddTaskInputs ==
  { TaskInput("Brush", "absent"), TaskInput("Brush", "grooming"),
    TaskInput(Undef, "health") }

\* req.body of updateFamily: the top-level fields it carries (set).
UpdateBody(set, name, members, tasks) ==
  [set |-> set, name |-> name, members |-> members, tasks |-> tasks]

UpdateBodies ==
  { UpdateBody({"name"}, "Fam2", << >>, << >>),
    UpdateBody({"name"}, "", << >>, << >>),
    UpdateBody({"tasks"}, Undef, << >>, << >>),
    UpdateBody({"tasks"}, Undef, << >>,
               << [name |-> "Nap", category |-> "absent", isCompleted |-> "true"] >>),
    UpdateBody({"members"}, Undef, << MemberInput("B", "+2", "absent") >>, << >>) }

\* ------------------------------------------------------------------ createFamily
CreateFamily(r) ==
  /\ Fresh(r)
  /\ Cardinality(DOMAIN store) < MaxFamilies
  /\ \E name \in FamilyNames, members \in MemberLists :
       LET family == NewFamily(name, members, nextId)
           q == Arrive("createFamily", UnknownId, UnknownId, Undef)
       IN IF ValidFamily(family)
          THEN /\ store' = store @@ (family._id :> family)
               /\ nextId' = nextId + 1 + Len(members) + Len(family.tasks)
               /\ req' = [req EXCEPT ![r] =
                            Respond([q EXCEPT !.fid = family._id, !.doc = family,
                                              !.after = store'[family._id]], 201)]
          ELSE /\ req' = [req EXCEPT ![r] = Respond(q, 400)]
               /\ UNCHANGED <<store, nextId>>
  /\ UNCHANGED now

\* ------------------------------------------------------------------ updateFamily
\* findByIdAndUpdate(id, req.body, { new: true }): the body's top-level
\* fields are $set, sub-document arrays are cast (each element gets an _id
\* and the schema defaults), validators do not run, __v is left alone.
ApplyUpdate(d, body, n) ==
  [d EXCEPT
     !.name = IF "name" \in body.set THEN body.name ELSE @,
     !.members = IF "members" \in body.set THEN CastMembers(body.members, n - 1) ELSE @,
     !.tasks = IF "tasks" \in body.set
               THEN CastTasks(body.tasks, n - 1 + Len(body.members)) ELSE @]

\* Outside the model: the positional write of a save() past the end of an
\* array that updateFamily has replaced, since that request's findById, by
\* a shorter one.  The update is taken only when the sub-document position
\* held by each request q that has loaded the family stays inside the array.
InRange(q, fid, body) ==
  IF q.pc = "loaded" /\ q.fid = fid
  THEN /\ ("tasks" \in body.set /\ q.op \in {"completeTask", "resetTask"})
            => q.sub <= Len(body.tasks)
       /\ ("members" \in body.set /\ q.op = "toggleNotifications")
            => q.sub <= Len(body.members)
  ELSE TRUE

UpdateFamily(r) ==
  /\ Fresh(r)
  /\ \E fid \in FamilyIdInputs, body \in UpdateBodies :
       LET q == Arrive("updateFamily", fid, UnknownId, Undef) IN
       /\ \A o \in Requests : InRange(req[o], fid, body)
       /\ IF fid = MalformedId
          THEN /\ req' = [req EXCEPT ![r] = Respond(q, 400)]
               /\ UNCHANGED <<store, nextId>>
          ELSE IF fid \notin DOMAIN store
          THEN /\ req' = [req EXCEPT ![r] = Respond(q, 404)]
               /\ UNCHANGED <<store, nextId>>
          ELSE LET family == ApplyUpdate(store[fid], body, nextId) IN
               /\ store' = [store EXCEPT ![fid] = family]
               /\ nextId' = nextId + Len(body.members) + Len(body.tasks)
               /\ req' = [req EXCEPT ![r] =
                            Respond([q EXCEPT !.doc = family, !.base = store[fid],
                                              !.after = family], 200)]
  /\ UNCHANGED now

\* ------------------------------------------------------------------ findById
\* The part common to the handlers that load the family and address one of
\* its sub-documents: Family.findById rejects (CastError, caught: 400) on a
\* parameter that is no ObjectId, resolves to null (404) when no document
\* has the id; the sub-document lookup gives null (404) on a miss.
LoadStatusMissAs400(fid, docs, sid) ==
  IF fid = MalformedId THEN 400
  ELSE IF fid \notin DOMAIN store THEN 400
  ELSE IF IndexOfId(docs, sid) = 0 THEN 404
  ELSE 0

LoadStatus(fid, docs, sid) ==
  IF fid = MalformedId THEN 400
  ELSE IF fid \notin DOMAIN store THEN 404
  ELSE IF IndexOfId(docs, sid) = 0 THEN 404
  ELSE 0

Loaded(q, family, sub, doc) ==
  [q EXCEPT !.pc = "loaded", !.base = family, !.sub = sub, !.doc = doc]

\* ------------------------------------------------------------------ save
\* save() of a loaded document sends the modified paths only.  A field of
\* a sub-document is written by position ($set 'tasks.<i>.<field>').
MergeFields(stored, base, doc) ==
  [f \in DOMAIN stored |-> IF doc[f] # base[f] THEN doc[f] ELSE stored[f]]

MergeArray(stored, base, doc) ==
  [i \in 1..Len(stored) |->
     IF i <= Len(base) /\ i <= Len(doc)
     THEN MergeFields(stored[i], base[i], doc[i])
     ELSE stored[i]]

PersistWhole(stored, base, doc) == doc

PersistNothing(stored, base, doc) == stored

Persist(stored, base, doc) ==
  [stored EXCEPT !.tasks = MergeArray(@, base.tasks, doc.tasks),
                 !.members = MergeArray(@, base.members, doc.members)]

\* The save() of completeTask, resetTask and toggleNotifications: validation
\* of the document (ValidationError), nothing sent when no path is
\* modified, else an update that matches the document's _id and, because a
\* path inside an array is set, its __v (VersionError when none matches).
\* `next` is the request after a successful save.
Save(r, next) ==
  LET q == req[r] IN
  IF ~ValidFamily(q.doc)
  THEN /\ req' = [req EXCEPT ![r] = Respond(q, 400)]
       /\ UNCHANGED store
  ELSE IF q.doc = q.base
  THEN /\ req' = [req EXCEPT ![r] = [next EXCEPT !.after = store[q.fid]]]
       /\ UNCHANGED store
  ELSE IF store[q.fid].v # q.doc.v
  THEN /\ req' = [req EXCEPT ![r] = Respond(q, 400)]
       /\ UNCHANGED store
  ELSE /\ store' = [store EXCEPT ![q.fid] = Persist(@, q.base, q.doc)]
       /\ req' = [req EXCEPT ![r] = [next EXCEPT !.after = store'[q.fid]]]

\* ------------------------------------------------------------------ sendTaskNotifications
EligibleIgnoringName(member, completedBy) == member.notifications

\* line 206: the members the loop sends to
Eligible(member, completedBy) ==
  member.notifications /\ member.name # completedBy

\* The first member at or after position `from` that gets a send, 0 if none.
NextEligible(members, completedBy, from) ==
  IF \E i \in from..Len(members) : Eligible(members[i], completedBy)
  THEN CHOOSE i \in from..Len(members) :
         /\ Eligible(members[i], completedBy)
         /\ \A j \in from..(i - 1) : ~Eligible(members[j], completedBy)
  ELSE 0

\* The loop reaches position idx, or is over: sendTaskNotifications returns
\* and completeTask answers res.json(family).
LoopAt(q, idx) ==
  IF idx = 0 THEN Respond(q, 200) ELSE [q EXCEPT !.pc = "notify", !.idx = idx]

AfterSendAborting(q, ok) ==
  IF ok THEN LoopAt(q, NextEligible(q.doc.members, q.by, q.idx + 1))
  ELSE Respond(q, 400)

\* After the send to the member at q.idx: a rejected send is caught and
\* logged inside the loop, which goes on either way.
AfterSend(q, ok) == LoopAt(q, NextEligible(q.doc.members, q.by, q.idx + 1))

SendNotification(r) ==
  /\ req[r].pc = "notify"
  /\ \E ok \in BOOLEAN :
       LET q == req[r]
           attempt == [to |-> q.doc.members[q.idx]._id, ok |-> ok]
       IN req' = [req EXCEPT ![r] = AfterSend([q EXCEPT !.attempts = Append(@, attempt)], ok)]
  /\ UNCHANGED <<store, nextId, now>>

\* ------------------------------------------------------------------ completeTask
CompleteFields(task, completedBy, at) ==
  [task EXCEPT !.completedBy = completedBy, !.completedAt = at, !.isCompleted = TRUE]

CompleteTaskLoad(r) ==
  /\ Fresh(r)
  /\ \E fid \in FamilyIdInputs, completedBy \in CompletedBys :
     \E taskId \in TaskIdInputs(fid) :
       LET q == Arrive("completeTask", fid, taskId, completedBy)
           status == LoadStatus(fid, store[fid].tasks, taskId)
       IN IF status # 0
          THEN /\ req' = [req EXCEPT ![r] = Respond(q, status)]
               /\ UNCHANGED now
          ELSE LET family == store[fid]
                   i == IndexOfId(family.tasks, taskId)
               IN /\ now' = now + 1
                  /\ req' = [req EXCEPT ![r] =
                       Loaded(q, family, i,
                              [family EXCEPT !.tasks[i] = CompleteFields(@, completedBy, now')])]
  /\ UNCHANGED <<store, nextId>>

CompleteTaskSave(r) ==
  /\ req[r].pc = "loaded" /\ req[r].op = "completeTask"
  /\ Save(r, LoopAt(req[r], NextEligible(req[r].doc.members, req[r].by, 1)))
  /\ UNCHANGED <<nextId, now>>

\* ------------------------------------------------------------------ resetTask
ResetFieldsKeepingFlag(task) ==
  [task EXCEPT !.completedBy = "", !.completedAt = NullDate]

ResetFields(task) ==
  [task EXCEPT !.completedBy = "", !.completedAt = NullDate, !.isCompleted = FALSE]

ResetTaskLoad(r) ==
  /\ Fresh(r)
  /\ \E fid \in FamilyIdInputs : \E taskId \in TaskIdInputs(fid) :
       LET q == Arrive("resetTask", fid, taskId, Undef)
           status == LoadStatus(fid, store[fid].tasks, taskId)
       IN IF status # 0
          THEN req' = [req EXCEPT ![r] = Respond(q, status)]
          ELSE LET family == store[fid]
                   i == IndexOfId(family.tasks, taskId)
               IN req' = [req EXCEPT ![r] =
                    Loaded(q, family, i, [family EXCEPT !.tasks[i] = ResetFields(@)])]
  /\ UNCHANGED <<store, nextId, now>>

ResetTaskSave(r) ==
  /\ req[r].pc = "loaded" /\ req[r].op = "resetTask"
  /\ Save(r, Respond(req[r], 200))
  /\ UNCHANGED <<nextId, now>>

\* ------------------------------------------------------------------ toggleNotifications
ToggleOff(member) == [member EXCEPT !.notifications = FALSE]

Toggle(member) == [member EXCEPT !.notifications = ~@]

ToggleLoad(r) ==
  /\ Fresh(r)
  /\ \E fid \in FamilyIdInputs : \E memberId \in MemberIdInputs(fid) :
       LET q == Arrive("toggleNotifications", fid, memberId, Undef)
           status == LoadStatus(fid, store[fid].members, memberId)
       IN IF status # 0
          THEN req' = [req EXCEPT ![r] = Respond(q, status)]
          ELSE LET family == store[fid]
                   i == IndexOfId(family.members, memberId)
               IN req' = [req EXCEPT ![r] =
                    Loaded(q, family, i, [family EXCEPT !.members[i] = Toggle(@)])]
  /\ UNCHANGED <<store, nextId, now>>

ToggleSave(r) ==
  /\ req[r].pc = "loaded" /\ req[r].op = "toggleNotifications"
  /\ Save(r, Respond(req[r], 200))
  /\ UNCHANGED <<nextId, now>>

\* ------------------------------------------------------------------ addTask
AddTaskLoad(r) ==
  /\ Fresh(r)
  /\ \E fid \in FamilyIdInputs, body \in AddTaskInputs :
       LET q == Arrive("addTask", fid, UnknownId, Undef) IN
       IF fid = MalformedId
       THEN req' = [req EXCEPT ![r] = Respond(q, 400)] /\ UNCHANGED nextId
       ELSE IF fid \notin DOMAIN store
       THEN req' = [req EXCEPT ![r] = Respond(q, 404)] /\ UNCHANGED nextId
       ELSE LET family == store[fid]
                task == CastTask(body, ObjectId(nextId))
            IN /\ nextId' = nextId + 1
               /\ req' = [req EXCEPT ![r] =
                    Loaded([q EXCEPT !.sid = task._id], family, Len(family.tasks) + 1,
                           [family EXCEPT !.tasks = Append(@, task)])]
  /\ UNCHANGED <<store, now>>

\* save() after tasks.push: validation, then $push of the new task with an
\* increment of __v (no condition on __v).
AddTaskSave(r) ==
  /\ req[r].pc = "loaded" /\ req[r].op = "addTask"
  /\ LET q == req[r] IN
     IF ~ValidFamily(q.doc)
     THEN /\ req' = [req EXCEPT ![r] = Respond(q, 400)]
          /\ UNCHANGED store
     ELSE /\ store' = [store EXCEPT ![q.fid].tasks = Append(@, q.doc.tasks[q.sub]),
                                    ![q.fid].v = @ + 1]
          /\ req' = [req EXCEPT ![r] =
                       Respond([q EXCEPT !.doc.v = @ + 1, !.after = store'[q.fid]], 200)]
  /\ UNCHANGED <<nextId, now>>

Init ==
  /\ store = << >>
  /\ nextId = 1
  /\ now = 0
  /\ req = [r \in Requests |-> IdleRequest]

Next ==
  \E r \in Requests :
    \/ CreateFamily(r)
    \/ UpdateFamily(r)
    \/ CompleteTaskLoad(r)
    \/ CompleteTaskSave(r)
    \/ SendNotification(r)
    \/ ResetTaskLoad(r)
    \/ ResetTaskSave(r)
    \/ AddTaskLoad(r)
    \/ AddTaskSave(r)
    \/ ToggleLoad(r)
    \/ ToggleSave(r)

Spec == Init /\ [][Next]_vars

\* ================================================================== claims
Succeeded(q, op) == q.op = op /\ q.pc = "done" /\ q.status = 200

\* The request wrote the store from what it had read with no other write in
\* between: the stored document after its write is its own copy.
Undisturbed(q) == q.after = q.doc

\* ------------------------------------------------------------------ C1
Stamped(task) ==
  /\ task.completedAt # NoDate /\ task.completedAt # NullDate
  /\ task.completedBy # Undef /\ task.completedBy # ""

\* C1: in every reachable state of the store, every task of every family
\* has isCompleted true if and only if completedAt is non-null and
\* completedBy is non-empty.
C1_IsCompletedIffStamped ==
  \A fid \in DOMAIN store : \A i \in 1..Len(store[fid].tasks) :
    store[fid].tasks[i].isCompleted <=> Stamped(store[fid].tasks[i])

\* ------------------------------------------------------------------ C2
SixNames == << "Poop", "Pee", "Walk", "Feed", "Medicine", "Bath" >>
SixCategories == << "hygiene", "hygiene", "activity", "health", "health", "hygiene" >>

SixIncomplete(tasks) ==
  /\ Len(tasks) = Len(SixNames)
  /\ \A i \in 1..Len(tasks) :
       /\ tasks[i].name = SixNames[i]
       /\ tasks[i].category = SixCategories[i]
       /\ ~tasks[i].isCompleted

\* C2: a successful createFamily stores and returns a family whose tasks
\* are exactly the six default tasks, in order, all of them incomplete,
\* whatever name and members were given.
C2_CreateSeedsSixTasks ==
  \A r \in Requests :
    (req[r].op = "createFamily" /\ req[r].status = 201) =>
      /\ SixIncomplete(req[r].doc.tasks)
      /\ req[r].after = req[r].doc

C2_Witness ==
  \E r \in Requests :
    /\ req[r].op = "createFamily" /\ req[r].status = 201
    /\ Len(req[r].doc.members) = MaxMembers

\* ------------------------------------------------------------------ C3
\* The completeTask request that arrives in this step names a family that
\* is not stored, or a task the family does not have.
ArrivesMissing(r) ==
  /\ req[r].pc = "idle" /\ req'[r].op = "completeTask"
  /\ IF req'[r].fid \in DOMAIN store
     THEN IndexOfId(store[req'[r].fid].tasks, req'[r].sid) = 0
     ELSE TRUE

Untouched(r) == store' = store /\ req'[r].pc = "done" /\ req'[r].attempts = << >>

\* C3 as claimed: completeTask with a familyId that matches no stored family
\* or a taskId that matches no task of the family answers 404, changes
\* nothing in the store and sends no notification.
C3_MissIsNotFound ==
  [][\A r \in Requests : ArrivesMissing(r) => (req'[r].status = 404 /\ Untouched(r))]_vars

\* C3 as amended: such a completeTask changes nothing in the store and sends
\* no notification; it answers 404, except that a familyId which is not a
\* well-formed id answers 400.
C3_MissLeavesStore ==
  [][\A r \in Requests :
       ArrivesMissing(r) =>
         /\ Untouched(r)
         /\ req'[r].status = IF req'[r].fid = MalformedId THEN 400 ELSE 404]_vars

C3_Witness ==
  \E r \in Requests :
    /\ req[r].op = "completeTask" /\ req[r].status = 404
    /\ req[r].fid \in DOMAIN store /\ req[r].sid = UnknownId

\* ------------------------------------------------------------------ C4
Recipients(members, completedBy) ==
  SelectSeq(members, LAMBDA m : m.notifications /\ m.name # completedBy)

\* C4: for a successful completeTask the sends attempted are, one each and
\* in member order, to the members of the family whose notifications flag
\* is true and whose name differs from completedBy.
C4_FanOutRecipients ==
  \A r \in Requests :
    Succeeded(req[r], "completeTask") =>
      LET to == Recipients(req[r].doc.members, req[r].by) IN
      /\ Len(req[r].attempts) = Len(to)
      /\ \A i \in 1..Len(to) : req[r].attempts[i].to = to[i]._id

C4_Witness ==
  \E r \in Requests :
    /\ Succeeded(req[r], "completeTask")
    /\ Len(req[r].attempts) = 1
    /\ \E i, j \in 1..Len(req[r].doc.members) :
         /\ req[r].doc.members[i].name = req[r].by
         /\ req[r].doc.members[i].notifications
         /\ req[r].doc.members[j]._id = req[r].attempts[1].to

\* ------------------------------------------------------------------ C5
Pending(q) ==
  { i \in (q.idx + 1)..Len(q.doc.members) :
      q.doc.members[i].notifications /\ q.doc.members[i].name # q.by }

\* C5: whatever the outcome of a send, the attempts made so far stay, the
\* fan-out goes on with the next eligible member, and once no eligible
\* member is left the call answers 200.
C5_FailedSendBlocksNothing ==
  [][\A r \in Requests :
       (req[r].pc = "notify" /\ req'[r] # req[r]) =>
         /\ Len(req'[r].attempts) = Len(req[r].attempts) + 1
         /\ SubSeq(req'[r].attempts, 1, Len(req[r].attempts)) = req[r].attempts
         /\ IF Pending(req[r]) = {}
            THEN req'[r].pc = "done" /\ req'[r].status = 200
            ELSE /\ req'[r].pc = "notify"
                 /\ req'[r].idx \in Pending(req[r])
                 /\ \A i \in Pending(req[r]) : req'[r].idx <= i]_vars

C5_Witness ==
  \E r \in Requests :
    /\ Succeeded(req[r], "completeTask")
    /\ Len(req[r].attempts) = 2
    /\ ~req[r].attempts[1].ok /\ ~req[r].attempts[2].ok

\* ------------------------------------------------------------------ C6
Notifying(q) == q.op = "completeTask" /\ (q.pc = "notify" \/ q.attempts # << >>)

\* The step is the successful save of completeTask request r.
CompletionSaved(r) ==
  /\ req[r].op = "completeTask" /\ req[r].pc = "loaded"
  /\ req'[r].pc \in {"notify", "done"} /\ req'[r].status # 400

\* C6 as claimed: the save of completeTask, which precedes every send,
\* leaves the store with the task completed: isCompleted true, completedBy
\* and completedAt those of the request.
C6_SaveStoresCompletion ==
  [][\A r \in Requests :
       CompletionSaved(r) =>
         LET task == store'[req[r].fid].tasks[req[r].sub] IN
         /\ task.isCompleted
         /\ task.completedBy = req[r].by
         /\ task.completedAt = req[r].doc.tasks[req[r].sub].completedAt]_vars

\* C6 as amended: the save precedes every send and writes completedAt; it
\* leaves the stored task equal to the request's completed task when no
\* other request wrote that task since the request read it; a request that
\* is sending has saved; and no send changes the store.
C6_PersistedBeforeNotified ==
  /\ [](\A r \in Requests :
          Notifying(req[r]) =>
            /\ req[r].after # NoDoc
            /\ req[r].after.tasks[req[r].sub].completedAt
                 = req[r].doc.tasks[req[r].sub].completedAt)
  /\ [][\A r \in Requests :
          /\ (req'[r].attempts # req[r].attempts) => store' = store
          /\ CompletionSaved(r) =>
               LET old == store[req[r].fid].tasks[req[r].sub]
                   new == store'[req[r].fid].tasks[req[r].sub]
                   mine == req[r].doc.tasks[req[r].sub]
               IN /\ new.completedAt = mine.completedAt
                  /\ (old = req[r].base.tasks[req[r].sub]) => new = mine
                  /\ req'[r].attempts = << >>
                  /\ req'[r].after = store'[req[r].fid]]_vars

C6_Witness ==
  \E r \in Requests :
    /\ req[r].op = "completeTask" /\ req[r].pc = "notify"
    /\ Len(req[r].attempts) = 1 /\ ~req[r].attempts[1].ok
    /\ store[req[r].fid].tasks[req[r].sub] = req[r].doc.tasks[req[r].sub]
    /\ store[req[r].fid].tasks[req[r].sub].isCompleted

\* ------------------------------------------------------------------ C7
Original(task) ==
  task.completedBy = Undef /\ task.completedAt = NoDate /\ ~task.isCompleted

\* completeTask r1 on a task in its original state, then resetTask r2 on the
\* same task, with no other write in between.
CompleteThenReset(r1, r2) ==
  /\ Succeeded(req[r1], "completeTask") /\ Succeeded(req[r2], "resetTask")
  /\ req[r1].fid = req[r2].fid /\ req[r1].sid = req[r2].sid
  /\ Original(req[r1].base.tasks[req[r1].sub])
  /\ Undisturbed(req[r1]) /\ req[r2].base = req[r1].after /\ Undisturbed(req[r2])

\* C7 as claimed: completeTask then resetTask on a task in its original
\* incomplete state gives back the family as it was, the task's
\* completedBy, completedAt and isCompleted included.
C7_ResetRestoresOriginal ==
  \A r1, r2 \in Requests :
    CompleteThenReset(r1, r2) => req[r2].after = req[r1].base

\* C7 as amended: the family is as it was but for the task's completedBy,
\* now the empty string, and its completedAt, now null; isCompleted is
\* false as before.
C7_ResetLeavesIncomplete ==
  \A r1, r2 \in Requests :
    CompleteThenReset(r1, r2) =>
      req[r2].after =
        [req[r1].base EXCEPT !.tasks[req[r1].sub] =
           [@ EXCEPT !.completedBy = "", !.completedAt = NullDate]]

C7_Witness == \E r1, r2 \in Requests : CompleteThenReset(r1, r2)

\* ------------------------------------------------------------------ C8
\* Every sub-document of `old` is in `new`, in the same relative order.
Kept(old, new) ==
  /\ \A i \in 1..Len(old) : IndexOfId(new, old[i]._id) # 0
  /\ \A i, j \in 1..Len(old) :
       i < j => IndexOfId(new, old[i]._id) < IndexOfId(new, old[j]._id)

\* C8: tasks and members are never removed: every task id and member id of
\* a family is still in it, in the same relative order, after any step.
C8_NeverRemoved ==
  [][\A fid \in DOMAIN store :
       /\ Kept(store[fid].tasks, store'[fid].tasks)
       /\ Kept(store[fid].members, store'[fid].members)]_vars

\* ------------------------------------------------------------------ C9
ToggleTwice(r1, r2) ==
  /\ Succeeded(req[r1], "toggleNotifications")
  /\ Succeeded(req[r2], "toggleNotifications")
  /\ req[r1].fid = req[r2].fid /\ req[r1].sid = req[r2].sid
  /\ Undisturbed(req[r1]) /\ req[r2].base = req[r1].after /\ Undisturbed(req[r2])

\* C9: a successful toggleNotifications flips the member's flag, and a
\* second one right after it gives back the family as it was before the
\* first.
C9_ToggleTwiceRestores ==
  /\ \A r \in Requests :
       Succeeded(req[r], "toggleNotifications") =>
         /\ req[r].doc.members[req[r].sub].notifications
              = ~req[r].base.members[req[r].sub].notifications
         /\ req[r].after.members[req[r].sub].notifications
              = ~req[r].base.members[req[r].sub].notifications
  /\ \A r1, r2 \in Requests :
       ToggleTwice(r1, r2) => req[r2].after = req[r1].base

C9_Witness == \E r1, r2 \in Requests : ToggleTwice(r1, r2)

\* ------------------------------------------------------------------ C10
\* Two successful requests of kind op on the same family that both read it
\* before either wrote.
Overlapped(r1, r2, op) ==
  /\ r1 # r2
  /\ Succeeded(req[r1], op) /\ Succeeded(req[r2], op)
  /\ req[r1].fid = req[r2].fid
  /\ req[r1].base = req[r2].base

SavedBy(r) ==
  /\ req[r].pc = "loaded" /\ req'[r].pc # "loaded" /\ req'[r].status # 400
  /\ req[r].op \in {"completeTask", "resetTask", "toggleNotifications"}

====
